---- MODULE Spec2Model ----
(***************************************************************************)
(* A model of gui_advance_audiobook.py (AudioBookApp): the concurrent page *)
(* extraction, the narration loop (_reading_process) running on background *)
(* threads, the Tk main thread with its handlers and after(0) callbacks,   *)
(* and the pyttsx3 engine seen through say / stop / isBusy / setProperty   *)
(* and its started-word callback.                                          *)
(***************************************************************************)
EXTENDS Integers, Sequences, FiniteSets, TLC

\* ----------------------------------------------------------------- bounds
\* Pages of a document.
MaxPages == 3
\* Narration threads start_reading may create in one run.
MaxThreads == 2
\* Pending after(0, ...) callbacks of the Tk main loop.
MaxAfter == 2
\* Documents selected (extraction threads started) in one run.
MaxSelections == 2

\* ------------------------------------------------------- program constants
DEFAULT_RATE == 180
SLIDER_FROM == 100
SLIDER_TO == 300

\* ------------------------------------------------------------- page texts
\* A page text is a sequence of characters; " " stands for any whitespace.
Texts == {<<>>, <<" ">>, <<" ", "a">>}

RECURSIVE LStrip(_)
LStrip(s) == IF s # <<>> /\ Head(s) = " " THEN LStrip(Tail(s)) ELSE s

RECURSIVE RStrip(_)
RStrip(s) ==
    IF s # <<>> /\ s[Len(s)] = " " THEN RStrip(SubSeq(s, 1, Len(s) - 1)) ELSE s

\* str.strip()
Strip(s) == RStrip(LStrip(s))

\* A variant of the blank check that skips the empty text alone.
SkipsOnlyEmpty(raw_text) == raw_text = <<>>
\* `if not raw_text.strip(): continue` (line 301): the page is skipped
skip_page(raw_text) == Strip(raw_text) = <<>>

\* The words of a text (maximal runs of non-whitespace): the engine raises one
\* 'started-word' event for each.
RECURSIVE WordCount(_)
WordCount(s) ==
    IF s = <<>> THEN 0
    ELSE IF Head(s) # " " /\ (Len(s) = 1 \/ s[2] = " ") THEN 1 + WordCount(Tail(s))
    ELSE WordCount(Tail(s))

Threads == 1..MaxThreads
Extractors == 1..MaxSelections
PageNums == 1..MaxPages

\* What extraction hands to the reader: [(1, text1), (2, text2), ...]
PageLists ==
    UNION {[1..n -> Texts] : n \in 1..MaxPages}
Contents == {[i \in DOMAIN f |-> <<i, f[i]>>] : f \in PageLists}

VARIABLES
    \* AudioBookApp fields
    pdf_file_path, is_reading, is_paused, stop_flag, current_content,
    current_page_text, tts_engine_lock, rate,
    \* widgets: button states (TRUE = tk.NORMAL), status bar text, text widget
    start_button, pause_button, stop_button, status_bar, display_text,
    \* the Tk main thread: where it is inside a handler, and its after(0) queue
    gui_pc, tk_queue,
    \* the pyttsx3 engine: the utterances handed to it and not yet finished
    eng_queue,
    \* the narration threads: position, loop index, the list they iterate
    pc, idx, my_content, n_threads,
    \* history of each narration thread: the pages it passed to say(), the
    \* pages it posted update_display for, whether it left the loop through a
    \* stop_flag break
    spoken, announced, broke,
    \* history of the Start command: a call of start_reading made while a
    \* session was reading has returned at line 213
    start_rejected,
    \* the extraction threads (_initial_extraction): position, the reader
    \* they opened, the futures not yet through as_completed, the slot array,
    \* the first failure seen, and what the method returned
    n_selects, ex_pc, reader, future_to_page, extracted_content,
    error_during_extraction, ex_result,
    \* history of each extraction: the page indices in the order their
    \* futures came out of as_completed
    completed

appVars == <<pdf_file_path, is_reading, is_paused, stop_flag, current_content,
             current_page_text, tts_engine_lock, rate>>
widgetVars == <<start_button, pause_button, stop_button, status_bar, display_text>>
guiVars == <<gui_pc, tk_queue>>
threadVars == <<pc, idx, my_content, n_threads>>
histVars == <<spoken, announced, broke, start_rejected>>
exVars == <<n_selects, ex_pc, reader, future_to_page, extracted_content,
           error_during_extraction, ex_result, completed>>
vars == <<appVars, widgetVars, guiVars, eng_queue, threadVars, histVars, exVars>>

\* Who holds tts_engine_lock
Free == <<>>
MainThread == <<"main">>
Reader(t) == <<"reader", t>>

\* ------------------------------------------------------------------ Init
\* No extraction thread exists.
NoReader == [path |-> "", texts |-> <<>>, fails |-> {}]
ExIdle ==
    /\ n_selects = 0
    /\ ex_pc = [e \in Extractors |-> "unborn"]
    /\ reader = [e \in Extractors |-> NoReader]
    /\ future_to_page = [e \in Extractors |-> {}]
    /\ extracted_content = [e \in Extractors |-> <<>>]
    /\ error_during_extraction = [e \in Extractors |-> {}]
    /\ ex_result = [e \in Extractors |-> <<>>]
    /\ completed = [e \in Extractors |-> <<>>]

\* The state after __init__, a document selected and its extraction loaded
\* by _post_extraction_update (start enabled, current_content set).
Init ==
    /\ pdf_file_path = "a.pdf"
    /\ is_reading = FALSE
    /\ is_paused = FALSE
    /\ stop_flag = FALSE
    /\ current_content \in Contents
    /\ current_page_text = 0
    /\ tts_engine_lock = Free
    /\ rate = DEFAULT_RATE
    /\ start_button = TRUE
    /\ pause_button = FALSE
    /\ stop_button = FALSE
    /\ status_bar = "loaded"
    /\ display_text = [page |-> 0, hl |-> 0]
    /\ gui_pc = "idle"
    /\ tk_queue = <<>>
    /\ eng_queue = <<>>
    /\ pc = [t \in Threads |-> "unborn"]
    /\ idx = [t \in Threads |-> 1]
    /\ my_content = [t \in Threads |-> <<>>]
    /\ n_threads = 0
    /\ spoken = [t \in Threads |-> <<>>]
    /\ announced = [t \in Threads |-> <<>>]
    /\ broke = [t \in Threads |-> FALSE]
    /\ start_rejected = FALSE
    /\ ExIdle

\* The state after __init__ (lines 19-52) and setup_gui: nothing selected.
InitApp ==
    /\ pdf_file_path = ""
    /\ is_reading = FALSE
    /\ is_paused = FALSE
    /\ stop_flag = FALSE
    /\ current_content = <<>>
    /\ current_page_text = 0
    /\ tts_engine_lock = Free
    /\ rate = DEFAULT_RATE
    /\ start_button = FALSE
    /\ pause_button = FALSE
    /\ stop_button = FALSE
    /\ status_bar = "ready"
    /\ display_text = [page |-> 0, hl |-> 0]
    /\ gui_pc = "idle"
    /\ tk_queue = <<>>
    /\ eng_queue = <<>>
    /\ pc = [t \in Threads |-> "unborn"]
    /\ idx = [t \in Threads |-> 1]
    /\ my_content = [t \in Threads |-> <<>>]
    /\ n_threads = 0
    /\ spoken = [t \in Threads |-> <<>>]
    /\ announced = [t \in Threads |-> <<>>]
    /\ broke = [t \in Threads |-> FALSE]
    /\ start_rejected = FALSE
    /\ ExIdle

\* --------------------------------------------------------------- helpers
\* The process is alive: the window was not destroyed (on_closing ends the
\* main loop, and the daemon threads with it).
Alive == gui_pc # "closed"

\* tts_engine.isBusy()
isBusy == eng_queue # <<>>

\* master.after(0, cb): cb joins the main loop's queue
After(q, cb) == Append(q, cb)
Callback(kind, by, page) == [kind |-> kind, by |-> by, page |-> page]

\* A narration thread that has started and not returned.
Live(t) == pc[t] \notin {"unborn", "done", "crashed"}

\* The page a narration thread is at in its for loop.
PageNum(t) == my_content[t][idx[t]][1]
RawText(t) == my_content[t][idx[t]][2]

\* A variant of _cleanup_buttons that leaves the stop button as it is.
CleanupKeepsStop == [start |-> pdf_file_path # "", pause |-> FALSE, stop |-> stop_button]
\* _cleanup_buttons (lines 349-353): the three button states it leaves
cleanup_buttons == [start |-> pdf_file_path # "", pause |-> FALSE, stop |-> FALSE]

\* ------------------------------------------------- the narration thread
\* for page_num, raw_text in self.current_content: the stop check, the blank
\* check, and the page-changed post (lines 298-304).
ReadLoop(t) ==
    /\ Alive /\ pc[t] = "for"
    /\ IF idx[t] > Len(my_content[t])
         THEN /\ pc' = [pc EXCEPT ![t] = "finish"]
              /\ UNCHANGED <<idx, current_page_text, tk_queue, announced, broke>>
       ELSE IF stop_flag
         THEN /\ pc' = [pc EXCEPT ![t] = "finish"]
              /\ broke' = [broke EXCEPT ![t] = TRUE]
              /\ UNCHANGED <<idx, current_page_text, tk_queue, announced>>
       ELSE IF skip_page(RawText(t))
         THEN /\ idx' = [idx EXCEPT ![t] = @ + 1]
              /\ UNCHANGED <<pc, current_page_text, tk_queue, announced, broke>>
       ELSE /\ Len(tk_queue) < MaxAfter
            /\ current_page_text' = PageNum(t)
            /\ tk_queue' = After(tk_queue, Callback("display", t, PageNum(t)))
            /\ announced' = [announced EXCEPT ![t] = Append(@, PageNum(t))]
            /\ pc' = [pc EXCEPT ![t] = "say"]
            /\ UNCHANGED <<idx, broke>>
    /\ UNCHANGED <<pdf_file_path, is_reading, is_paused, stop_flag, current_content,
                   tts_engine_lock, rate, widgetVars, gui_pc, eng_queue,
                   my_content, n_threads, spoken, start_rejected>>
    /\ UNCHANGED exVars

\* with self.tts_engine_lock: self.tts_engine.say(raw_text)   (lines 307-308)
ReadSay(t) ==
    /\ Alive /\ pc[t] = "say"
    /\ tts_engine_lock = Free
    /\ tts_engine_lock' = Reader(t)
    /\ eng_queue' = Append(eng_queue, [by |-> t, page |-> PageNum(t),
                                       words |-> WordCount(RawText(t))])
    /\ spoken' = [spoken EXCEPT ![t] = Append(@, PageNum(t))]
    /\ pc' = [pc EXCEPT ![t] = "say_exit"]
    /\ UNCHANGED <<pdf_file_path, is_reading, is_paused, stop_flag, current_content,
                   current_page_text, rate, widgetVars, guiVars, idx, my_content,
                   n_threads, announced, broke, start_rejected>>
    /\ UNCHANGED exVars

\* leaving the with block: the lock is released
ReadSayExit(t) ==
    /\ Alive /\ pc[t] = "say_exit"
    /\ tts_engine_lock' = Free
    /\ pc' = [pc EXCEPT ![t] = "poll"]
    /\ UNCHANGED <<pdf_file_path, is_reading, is_paused, stop_flag, current_content,
                   current_page_text, rate, widgetVars, guiVars, eng_queue, idx,
                   my_content, n_threads, histVars>>
    /\ UNCHANGED exVars

\* say() raises: the with block releases the lock and the except clause of
\* _reading_process posts the crash status and stop_reading (lines 333-337).
\* The thread returns without reaching line 331.
ReadCrash(t) ==
    /\ Alive /\ pc[t] = "say"
    /\ tts_engine_lock = Free
    /\ Len(tk_queue) + 2 <= MaxAfter
    /\ tk_queue' = After(After(tk_queue, Callback("crash_status", t, 0)),
                         Callback("stop_reading", t, 0))
    /\ pc' = [pc EXCEPT ![t] = "crashed"]
    /\ UNCHANGED <<appVars, widgetVars, gui_pc, eng_queue, idx, my_content,
                   n_threads, histVars>>
    /\ UNCHANGED exVars

\* A variant of the poll in which a pause ends the loop.
PollNextPauseBreaks(t) ==
    IF isBusy /\ ~stop_flag
      THEN IF is_paused /\ ~stop_flag THEN "finish" ELSE "poll"
      ELSE "after"
\* Where the poll at line 311 goes next.
PollNext(t) ==
    IF isBusy /\ ~stop_flag
      THEN IF is_paused /\ ~stop_flag THEN "paused" ELSE "poll"
      ELSE "after"

\* while self.tts_engine.isBusy() and not self.stop_flag.is_set(): with the
\* first test of the inner pause loop and the sleep (lines 311-318)
ReadPoll(t) ==
    /\ Alive /\ pc[t] = "poll"
    /\ pc' = [pc EXCEPT ![t] = PollNext(t)]
    /\ UNCHANGED <<appVars, widgetVars, guiVars, eng_queue, idx, my_content,
                   n_threads, histVars>>
    /\ UNCHANGED exVars

\* while self.is_paused and not self.stop_flag.is_set(): sleep (lines 313-315);
\* on leaving it, the sleep of line 318 and back to the test of line 311
ReadPaused(t) ==
    /\ Alive /\ pc[t] = "paused"
    /\ pc' = [pc EXCEPT ![t] = IF is_paused /\ ~stop_flag THEN "paused" ELSE "poll"]
    /\ UNCHANGED <<appVars, widgetVars, guiVars, eng_queue, idx, my_content,
                   n_threads, histVars>>
    /\ UNCHANGED exVars

\* if self.stop_flag.is_set(): clear highlight, break; else clear highlight and
\* go to the next page (lines 321-326)
ReadAfter(t) ==
    /\ Alive /\ pc[t] = "after"
    /\ Len(tk_queue) < MaxAfter
    /\ tk_queue' = After(tk_queue, Callback("clear", 0, 0))
    /\ IF stop_flag
         THEN /\ broke' = [broke EXCEPT ![t] = TRUE]
              /\ pc' = [pc EXCEPT ![t] = "finish"]
              /\ UNCHANGED idx
         ELSE /\ idx' = [idx EXCEPT ![t] = @ + 1]
              /\ pc' = [pc EXCEPT ![t] = "for"]
              /\ UNCHANGED broke
    /\ UNCHANGED <<appVars, widgetVars, gui_pc, eng_queue, my_content, n_threads,
                   spoken, announced, start_rejected>>
    /\ UNCHANGED exVars

\* after(0, _cleanup_buttons); after(0, status); self.is_reading = False
\* (lines 329-331)
ReadFinish(t) ==
    /\ Alive /\ pc[t] = "finish"
    /\ Len(tk_queue) + 2 <= MaxAfter
    /\ tk_queue' = After(After(tk_queue, Callback("cleanup", 0, 0)),
                         Callback("status", 0, 0))
    /\ is_reading' = FALSE
    /\ pc' = [pc EXCEPT ![t] = "done"]
    /\ UNCHANGED <<pdf_file_path, is_paused, stop_flag, current_content,
                   current_page_text, tts_engine_lock, rate, widgetVars, gui_pc,
                   eng_queue, idx, my_content, n_threads, histVars>>
    /\ UNCHANGED exVars

\* ---------------------------------------------------------- the engine
\* The engine starts the next word of the utterance it is playing and calls
\* the 'started-word' listener: _on_tts_word posts _highlight_word (186-188).
EngineWord ==
    /\ Alive /\ eng_queue # <<>>
    /\ Head(eng_queue).words > 0
    /\ Len(tk_queue) < MaxAfter
    /\ tk_queue' = After(tk_queue, Callback("hl", Head(eng_queue).by, Head(eng_queue).page))
    /\ eng_queue' = [eng_queue EXCEPT ![1].words = @ - 1]
    /\ UNCHANGED <<appVars, widgetVars, gui_pc, threadVars, histVars>>
    /\ UNCHANGED exVars

\* The engine finishes the utterance it is playing; isBusy() turns false once
\* nothing is left.
EngineFinish ==
    /\ Alive /\ eng_queue # <<>>
    /\ Head(eng_queue).words = 0
    /\ eng_queue' = Tail(eng_queue)
    /\ UNCHANGED <<appVars, widgetVars, guiVars, threadVars, histVars>>
    /\ UNCHANGED exVars

\* ------------------------------------------------------ the main thread
\* A variant of the test of line 213 that never finds a session reading.
NeverReading == FALSE
\* if self.is_reading: return   (line 213)
already_reading == is_reading

\* The body of start_reading (lines 213-222).
StartReading ==
    /\ IF already_reading
         THEN UNCHANGED <<appVars, widgetVars, guiVars, eng_queue, threadVars,
                          spoken, announced, broke>>
         ELSE /\ n_threads < MaxThreads
              /\ is_reading' = TRUE
              /\ stop_flag' = FALSE
              /\ start_button' = FALSE
              /\ pause_button' = TRUE
              /\ stop_button' = TRUE
              /\ status_bar' = "started"
              /\ n_threads' = n_threads + 1
              /\ pc' = [pc EXCEPT ![n_threads + 1] = "for"]
              /\ my_content' = [my_content EXCEPT ![n_threads + 1] = current_content]
              /\ UNCHANGED <<pdf_file_path, is_paused, current_content, current_page_text,
                             tts_engine_lock, rate, display_text, guiVars, eng_queue,
                             idx, spoken, announced, broke>>
    /\ UNCHANGED exVars

\* start_reading (lines 211-222), the command of the Start button.
start_reading ==
    /\ gui_pc = "idle" /\ start_button
    /\ StartReading
    /\ UNCHANGED start_rejected

\* start_reading called whatever the state of the Start button: the first
\* start of a run, or a call made while a session is reading.
call_start_reading ==
    /\ gui_pc = "idle"
    /\ is_reading \/ n_threads = 0
    /\ StartReading
    /\ start_rejected' = (start_rejected \/ is_reading)

\* pause_resume_reading (lines 224-236), the command of the Pause button.
pause_resume_reading ==
    /\ gui_pc = "idle" /\ pause_button
    /\ IF ~is_reading
         THEN UNCHANGED vars
         ELSE /\ tts_engine_lock = Free
              /\ is_paused' = ~is_paused
              /\ status_bar' = IF is_paused THEN "resumed" ELSE "paused"
              /\ UNCHANGED <<pdf_file_path, is_reading, stop_flag, current_content,
                             current_page_text, tts_engine_lock, rate, start_button,
                             pause_button, stop_button, display_text, guiVars,
                             eng_queue, threadVars, histVars>>
    /\ UNCHANGED exVars

\* stop_reading, line 240: self.stop_flag.set(). `next` is where the main
\* thread goes on.
StopSetFlag(next) ==
    /\ stop_flag' = TRUE
    /\ gui_pc' = next
    /\ UNCHANGED <<pdf_file_path, is_reading, is_paused, current_content,
                   current_page_text, tts_engine_lock, rate, widgetVars,
                   eng_queue, threadVars, histVars>>
    /\ UNCHANGED exVars

\* stop_reading, lines 241-243: the lock is taken and engine.stop() flushes
\* the engine.
StopEngine(next) ==
    /\ tts_engine_lock = Free
    /\ tts_engine_lock' = MainThread
    /\ eng_queue' = <<>>
    /\ gui_pc' = next
    /\ UNCHANGED <<pdf_file_path, is_reading, is_paused, stop_flag, current_content,
                   current_page_text, rate, widgetVars, tk_queue, threadVars, histVars>>
    /\ UNCHANGED exVars

\* stop_reading, lines 243-246: the lock is released, then is_reading,
\* _cleanup_buttons and the status.
StopRest(next) ==
    /\ tts_engine_lock' = Free
    /\ is_reading' = FALSE
    /\ start_button' = cleanup_buttons.start
    /\ pause_button' = cleanup_buttons.pause
    /\ stop_button' = cleanup_buttons.stop
    /\ status_bar' = "stopped"
    /\ gui_pc' = next
    /\ UNCHANGED <<pdf_file_path, is_paused, stop_flag, current_content,
                   current_page_text, rate, display_text, tk_queue, eng_queue,
                   threadVars, histVars>>
    /\ UNCHANGED exVars

\* The Stop button's command.
stop_reading ==
    /\ gui_pc = "idle" /\ stop_button
    /\ StopSetFlag("stop_241")
    /\ UNCHANGED tk_queue

stop_reading_241 ==
    /\ gui_pc = "stop_241"
    /\ StopEngine("stop_243")

stop_reading_243 ==
    /\ gui_pc = "stop_243"
    /\ StopRest("idle")

\* on_closing (lines 55-72), the WM_DELETE_WINDOW handler: stop_reading,
\* the sleep, engine.stop() with no lock taken, master.destroy().
on_closing ==
    /\ gui_pc = "idle"
    /\ StopSetFlag("close_241")
    /\ UNCHANGED tk_queue

on_closing_241 ==
    /\ gui_pc = "close_241"
    /\ StopEngine("close_243")

on_closing_243 ==
    /\ gui_pc = "close_243"
    /\ StopRest("close_64")

\* time.sleep(TTS_POLL_DELAY); self.tts_engine.stop(): the main thread is
\* inside engine.stop() (lines 64-65)
on_closing_64 ==
    /\ gui_pc = "close_64"
    /\ eng_queue' = <<>>
    /\ gui_pc' = "close_65"
    /\ UNCHANGED <<appVars, widgetVars, tk_queue, threadVars, histVars, exVars>>

\* self.master.destroy() (line 72): the main loop ends, and the process
on_closing_72 ==
    /\ gui_pc = "close_65"
    /\ gui_pc' = "closed"
    /\ UNCHANGED <<appVars, widgetVars, tk_queue, eng_queue, threadVars, histVars,
                   exVars>>

\* The values the speed slider (from_=100, to=300) hands to its command.
SliderValues == {SLIDER_FROM, DEFAULT_RATE, SLIDER_TO}

\* The values _set_speed_from_slider is handed when it is called directly:
\* the slider's, one below its range and one above.
RateInputs == SliderValues \cup {SLIDER_FROM - 50, SLIDER_TO + 200}

\* _set_speed_from_slider(value) (lines 169-174): the main thread is inside
\* tts_engine.setProperty('rate', speed), no lock taken
SetSpeed(value) ==
    /\ gui_pc = "idle"
    /\ rate' = value
    /\ gui_pc' = "speed_174"
    /\ UNCHANGED <<pdf_file_path, is_reading, is_paused, stop_flag, current_content,
                   current_page_text, tts_engine_lock, widgetVars, tk_queue,
                   eng_queue, threadVars, histVars, exVars>>

\* The slider's command: the Scale hands it a value of its range.
set_speed_from_slider(value) ==
    /\ value \in SliderValues
    /\ SetSpeed(value)

\* _set_speed_from_slider called with any value.
call_set_speed_from_slider(value) ==
    /\ value \in RateInputs
    /\ SetSpeed(value)

\* _set_speed_from_slider (lines 177-182): the speed label and the status bar
set_speed_from_slider_177 ==
    /\ gui_pc = "speed_174"
    /\ status_bar' = "speed"
    /\ gui_pc' = "idle"
    /\ UNCHANGED <<appVars, start_button, pause_button, stop_button, display_text,
                   tk_queue, eng_queue, threadVars, histVars, exVars>>

\* ------------------------------------------------------------ extraction
\* The paths the file dialog can return.
Paths == {"missing.pdf", "a.pdf", "b.pdf"}
\* A variant of os.path.exists that finds every path.
ExistsAlways(path) == TRUE
\* os.path.exists(path)   (line 257)
Exists(path) == path \in {"a.pdf", "b.pdf"}

\* The documents a path can hold: the text of each page, and the pages whose
\* extract_text() raises.
Documents ==
    UNION {[texts : [1..n -> Texts], fails : SUBSET (0..(n - 1))] : n \in 0..MaxPages}

\* [(0, f"EXTRACTION_ERROR: {e.__class__.__name__}: {str(e)}")]   (line 288)
ErrorResult(cause) == << <<0, <<"EXTRACTION_ERROR", cause>> >> >>

\* content[0][0] == 0 and content[0][1].startswith("EXTRACTION_ERROR")
IsErrorContent(content) ==
    /\ content # <<>>
    /\ content[1][1] = 0
    /\ content[1][2] # <<>>
    /\ Head(content[1][2]) = "EXTRACTION_ERROR"

\* None, in a slot of extracted_content
None == <<>>

\* The first slot still None.
FirstFree(slots) == CHOOSE k \in 1..Len(slots) :
                       /\ slots[k] = None
                       /\ \A j \in 1..(k - 1) : slots[j] # None

\* A variant of the store that fills the slots in completion order.
StoreInCompletionOrder(slots, page_index, text) ==
    [slots EXCEPT ![FirstFree(slots)] = <<page_index + 1, text>>]
\* extracted_content[page_index] = (page_index + 1, text)   (line 280)
Store(slots, page_index, text) ==
    [slots EXCEPT ![page_index + 1] = <<page_index + 1, text>>]

\* [item for item in extracted_content if item is not None]   (line 285)
RECURSIVE NotNone(_)
NotNone(slots) ==
    IF slots = <<>> THEN <<>>
    ELSE IF Head(slots) = None THEN NotNone(Tail(slots))
    ELSE <<Head(slots)>> \o NotNone(Tail(slots))

\* A variant of the return that keeps the extracted pages next to the error.
ReturnedKeepingPages(slots, error) ==
    IF error # {} THEN NotNone(slots) \o ErrorResult("PageError") ELSE NotNone(slots)
\* Lines 282-288: what the method returns once every future is through.
Returned(slots, error) ==
    IF error # {} THEN ErrorResult("PageError") ELSE NotNone(slots)

\* select_pdf_file (lines 135-145) with a path chosen in the dialog.
select_pdf_file(filepath) ==
    /\ gui_pc = "idle"
    /\ n_selects < MaxSelections
    /\ pdf_file_path' = filepath
    /\ start_button' = FALSE
    /\ status_bar' = "extracting"
    /\ n_selects' = n_selects + 1
    /\ ex_pc' = [ex_pc EXCEPT ![n_selects + 1] = "exists"]
    /\ UNCHANGED <<is_reading, is_paused, stop_flag, current_content, current_page_text,
                   tts_engine_lock, rate, pause_button, stop_button, display_text,
                   guiVars, eng_queue, threadVars, histVars, reader, future_to_page,
                   extracted_content, error_during_extraction, ex_result, completed>>

\* if not os.path.exists(self.pdf_file_path): raise FileNotFoundError
\* (lines 257-258, caught at 287)
ExExists(e) ==
    /\ Alive /\ ex_pc[e] = "exists"
    /\ IF Exists(pdf_file_path)
         THEN /\ ex_pc' = [ex_pc EXCEPT ![e] = "open"]
              /\ UNCHANGED ex_result
         ELSE /\ ex_result' = [ex_result EXCEPT ![e] = ErrorResult("FileNotFoundError")]
              /\ ex_pc' = [ex_pc EXCEPT ![e] = "post"]
    /\ UNCHANGED <<appVars, widgetVars, guiVars, eng_queue, threadVars, histVars,
                   n_selects, reader, future_to_page, extracted_content,
                   error_during_extraction, completed>>

\* reader = pypdf.PdfReader(self.pdf_file_path); the slot array; the futures
\* submitted (lines 260-273)
ExOpenDoc(e, doc) ==
    /\ Alive /\ ex_pc[e] = "open"
    /\   /\ reader' = [reader EXCEPT ![e] = [path |-> pdf_file_path, texts |-> doc.texts,
                                             fails |-> doc.fails]]
         /\ extracted_content' = [extracted_content EXCEPT
                                    ![e] = [k \in 1..Len(doc.texts) |-> None]]
         /\ future_to_page' = [future_to_page EXCEPT ![e] = 0..(Len(doc.texts) - 1)]
    /\ ex_pc' = [ex_pc EXCEPT ![e] = "collect"]
    /\ UNCHANGED <<appVars, widgetVars, guiVars, eng_queue, threadVars, histVars,
                   n_selects, error_during_extraction, ex_result, completed>>

\* The file holds any document of up to MaxPages pages.
ExOpen(e) == \E doc \in Documents : ExOpenDoc(e, doc)

\* Two files that do not change while the application runs: what PdfReader
\* finds at each path.
DocAt(path) ==
    IF path = "a.pdf" THEN [texts |-> << <<" ", "a">> >>, fails |-> {}]
    ELSE [texts |-> << <<" ", "a">>, <<" ">> >>, fails |-> {}]

\* PdfReader(self.pdf_file_path) on the file now at pdf_file_path (line 260)
ExOpenAt(e) ==
    /\ Exists(pdf_file_path)
    /\ ExOpenDoc(e, DocAt(pdf_file_path))

\* PdfReader raises on a file it cannot parse (line 260, caught at 287)
ExOpenFails(e) ==
    /\ Alive /\ ex_pc[e] = "open"
    /\ ex_result' = [ex_result EXCEPT ![e] = ErrorResult("PdfReadError")]
    /\ ex_pc' = [ex_pc EXCEPT ![e] = "post"]
    /\ UNCHANGED <<appVars, widgetVars, guiVars, eng_queue, threadVars, histVars,
                   n_selects, reader, future_to_page, extracted_content,
                   error_during_extraction, completed>>

\* PdfReader(self.pdf_file_path) raises: pdf_file_path names no file by now
ExOpenMissing(e) ==
    /\ ~Exists(pdf_file_path)
    /\ ExOpenFails(e)

\* for future in as_completed(future_to_page): the task of page_index is the
\* next to complete (lines 274-280)
ExCollect(e, page_index) ==
    /\ Alive /\ ex_pc[e] = "collect"
    /\ page_index \in future_to_page[e]
    /\ future_to_page' = [future_to_page EXCEPT ![e] = @ \ {page_index}]
    /\ completed' = [completed EXCEPT ![e] = Append(@, page_index)]
    /\ IF page_index \in reader[e].fails
         THEN /\ error_during_extraction' =
                    [error_during_extraction EXCEPT ![e] = IF @ = {} THEN {page_index} ELSE @]
              /\ UNCHANGED extracted_content
         ELSE /\ extracted_content' =
                    [extracted_content EXCEPT
                       ![e] = Store(@, page_index, reader[e].texts[page_index + 1])]
              /\ UNCHANGED error_during_extraction
    /\ UNCHANGED <<appVars, widgetVars, guiVars, eng_queue, threadVars, histVars,
                   n_selects, ex_pc, reader, ex_result>>

\* the loop is over: raise the first failure or return the pages (282-288)
ExReturn(e) ==
    /\ Alive /\ ex_pc[e] = "collect"
    /\ future_to_page[e] = {}
    /\ ex_result' = [ex_result EXCEPT
                       ![e] = Returned(extracted_content[e], error_during_extraction[e])]
    /\ ex_pc' = [ex_pc EXCEPT ![e] = "post"]
    /\ UNCHANGED <<appVars, widgetVars, guiVars, eng_queue, threadVars, histVars,
                   n_selects, reader, future_to_page, extracted_content,
                   error_during_extraction, completed>>

\* self.master.after(0, lambda: self._post_extraction_update(content)) (150)
ExPost(e) ==
    /\ Alive /\ ex_pc[e] = "post"
    /\ Len(tk_queue) < MaxAfter
    /\ tk_queue' = After(tk_queue, Callback("post_extraction", e, 0))
    /\ ex_pc' = [ex_pc EXCEPT ![e] = "done"]
    /\ UNCHANGED <<appVars, widgetVars, gui_pc, eng_queue, threadVars, histVars,
                   n_selects, reader, future_to_page, extracted_content,
                   error_during_extraction, ex_result, completed>>

\* _post_extraction_update(content) (lines 152-167): what it leaves in
\* current_content, the start button and the status bar
post_extraction_update(content) ==
    IF IsErrorContent(content)
      THEN [content |-> <<>>, start |-> FALSE, status |-> "extraction_failed"]
    ELSE IF content # <<>>
      THEN [content |-> content, start |-> TRUE, status |-> "loaded"]
    ELSE [content |-> <<>>, start |-> FALSE, status |-> "empty"]

\* The main loop runs the oldest after(0) callback.
TkRun ==
    /\ gui_pc = "idle" /\ tk_queue # <<>>
    /\ tk_queue' = Tail(tk_queue)
    /\ LET cb == Head(tk_queue) IN
         CASE cb.kind = "display" ->
                \* lambda: self.update_display(self.current_page_text)
                /\ display_text' = [page |-> current_page_text, hl |-> 0]
                /\ UNCHANGED <<appVars, gui_pc, start_button, pause_button,
                               stop_button, status_bar>>
           [] cb.kind = "hl" ->
                \* _highlight_word
                /\ display_text' = [display_text EXCEPT !.hl = cb.page]
                /\ UNCHANGED <<appVars, gui_pc, start_button, pause_button,
                               stop_button, status_bar>>
           [] cb.kind = "clear" ->
                \* display_text.tag_remove('highlight', ...)
                /\ display_text' = [display_text EXCEPT !.hl = 0]
                /\ UNCHANGED <<appVars, gui_pc, start_button, pause_button,
                               stop_button, status_bar>>
           [] cb.kind = "cleanup" ->
                /\ start_button' = cleanup_buttons.start
                /\ pause_button' = cleanup_buttons.pause
                /\ stop_button' = cleanup_buttons.stop
                /\ UNCHANGED <<appVars, gui_pc, status_bar, display_text>>
           [] cb.kind = "status" ->
                \* lambda: status "Reading finished." / "Reading stopped."
                /\ status_bar' = IF stop_flag THEN "stopped" ELSE "finished"
                /\ UNCHANGED <<appVars, gui_pc, start_button, pause_button,
                               stop_button, display_text>>
           [] cb.kind = "crash_status" ->
                \* lambda: status_bar.config(text=f"... {e.__class__.__name__}"):
                \* the except clause has unbound e by the time the main loop
                \* calls the lambda, so it raises NameError and Tk reports the
                \* callback's exception: the status bar is not touched.
                /\ UNCHANGED <<appVars, gui_pc, widgetVars>>
           [] cb.kind = "stop_reading" ->
                \* after(0, self.stop_reading): line 240, the rest follows
                /\ stop_flag' = TRUE
                /\ gui_pc' = "stop_241"
                /\ UNCHANGED <<pdf_file_path, is_reading, is_paused, current_content,
                               current_page_text, tts_engine_lock, rate, widgetVars>>
           [] cb.kind = "post_extraction" ->
                LET upd == post_extraction_update(ex_result[cb.by]) IN
                /\ current_content' = upd.content
                /\ start_button' = upd.start
                /\ status_bar' = upd.status
                \* the failure branch alone calls update_display
                /\ display_text' = IF upd.status = "extraction_failed"
                                   THEN [page |-> 0, hl |-> 0] ELSE display_text
                /\ UNCHANGED <<pdf_file_path, is_reading, is_paused, stop_flag,
                               current_page_text, tts_engine_lock, rate, gui_pc,
                               pause_button, stop_button>>
    /\ UNCHANGED <<eng_queue, threadVars, histVars, exVars>>

\* ------------------------------------------------------------- the system
Next ==
    \/ \E t \in Threads : ReadLoop(t)
    \/ \E t \in Threads : ReadSay(t)
    \/ \E t \in Threads : ReadSayExit(t)
    \/ \E t \in Threads : ReadCrash(t)
    \/ \E t \in Threads : ReadPoll(t)
    \/ \E t \in Threads : ReadPaused(t)
    \/ \E t \in Threads : ReadAfter(t)
    \/ \E t \in Threads : ReadFinish(t)
    \/ EngineWord
    \/ EngineFinish
    \/ start_reading
    \/ pause_resume_reading
    \/ stop_reading
    \/ stop_reading_241
    \/ stop_reading_243
    \/ TkRun

Spec == Init /\ [][Next]_vars

\* One session: the narration of the loaded document, started once.
first_start_reading == n_threads = 0 /\ start_reading

NextSession ==
    \/ \E t \in Threads : ReadLoop(t)
    \/ \E t \in Threads : ReadSay(t)
    \/ \E t \in Threads : ReadSayExit(t)
    \/ \E t \in Threads : ReadCrash(t)
    \/ \E t \in Threads : ReadPoll(t)
    \/ \E t \in Threads : ReadPaused(t)
    \/ \E t \in Threads : ReadAfter(t)
    \/ \E t \in Threads : ReadFinish(t)
    \/ EngineWord
    \/ EngineFinish
    \/ first_start_reading
    \/ pause_resume_reading
    \/ stop_reading
    \/ stop_reading_241
    \/ stop_reading_243
    \/ TkRun

SpecSession == Init /\ [][NextSession]_vars

\* One session with the speed slider and the window's close button.
NextEngine ==
    \/ NextSession
    \/ \E value \in SliderValues : set_speed_from_slider(value)
    \/ set_speed_from_slider_177
    \/ on_closing
    \/ on_closing_241
    \/ on_closing_243
    \/ on_closing_64
    \/ on_closing_72

SpecEngine == Init /\ [][NextEngine]_vars

\* One session, with start_reading called again at any moment of it.
NextStart ==
    \/ \E t \in Threads : ReadLoop(t)
    \/ \E t \in Threads : ReadSay(t)
    \/ \E t \in Threads : ReadSayExit(t)
    \/ \E t \in Threads : ReadCrash(t)
    \/ \E t \in Threads : ReadPoll(t)
    \/ \E t \in Threads : ReadPaused(t)
    \/ \E t \in Threads : ReadAfter(t)
    \/ \E t \in Threads : ReadFinish(t)
    \/ EngineWord
    \/ EngineFinish
    \/ call_start_reading
    \/ pause_resume_reading
    \/ stop_reading
    \/ stop_reading_241
    \/ stop_reading_243
    \/ TkRun

SpecStart == Init /\ [][NextStart]_vars

\* One session with _set_speed_from_slider called with any value.
NextRate ==
    \/ NextSession
    \/ \E value \in RateInputs : call_set_speed_from_slider(value)
    \/ set_speed_from_slider_177

SpecRate == Init /\ [][NextRate]_vars

\* The extraction of the first document selected after the application starts.
first_select_pdf_file(filepath) == n_selects = 0 /\ select_pdf_file(filepath)

NextExtract ==
    \/ \E filepath \in Paths : first_select_pdf_file(filepath)
    \/ \E e \in Extractors : ExExists(e)
    \/ \E e \in Extractors : ExOpen(e)
    \/ \E e \in Extractors : ExOpenFails(e)
    \/ \E e \in Extractors, page_index \in 0..(MaxPages - 1) : ExCollect(e, page_index)
    \/ \E e \in Extractors : ExReturn(e)
    \/ \E e \in Extractors : ExPost(e)
    \/ TkRun

SpecExtract == InitApp /\ [][NextExtract]_vars

\* The application from its start: the first document selected, its
\* extraction, and start_reading called whatever the Start button.
NextNotFound ==
    \/ \E filepath \in Paths : first_select_pdf_file(filepath)
    \/ \E e \in Extractors : ExExists(e)
    \/ \E e \in Extractors : ExOpen(e)
    \/ \E e \in Extractors : ExOpenFails(e)
    \/ \E e \in Extractors, page_index \in 0..(MaxPages - 1) : ExCollect(e, page_index)
    \/ \E e \in Extractors : ExReturn(e)
    \/ \E e \in Extractors : ExPost(e)
    \/ call_start_reading
    \/ \E t \in Threads : ReadLoop(t)
    \/ \E t \in Threads : ReadSay(t)
    \/ \E t \in Threads : ReadSayExit(t)
    \/ \E t \in Threads : ReadPoll(t)
    \/ \E t \in Threads : ReadAfter(t)
    \/ \E t \in Threads : ReadFinish(t)
    \/ EngineWord
    \/ EngineFinish
    \/ TkRun

SpecNotFound == InitApp /\ [][NextNotFound]_vars

\* Documents selected one after the other, their extractions running side by
\* side, the files unchanged meanwhile.
NextReselect ==
    \/ \E filepath \in Paths : select_pdf_file(filepath)
    \/ \E e \in Extractors : ExExists(e)
    \/ \E e \in Extractors : ExOpenAt(e)
    \/ \E e \in Extractors : ExOpenMissing(e)
    \/ \E e \in Extractors, page_index \in 0..(MaxPages - 1) : ExCollect(e, page_index)
    \/ \E e \in Extractors : ExReturn(e)
    \/ \E e \in Extractors : ExPost(e)
    \/ TkRun

SpecReselect == InitApp /\ [][NextReselect]_vars

\* One session of the loaded document during which a path that names no
\* file is selected.
NextFailure ==
    \/ NextSession
    \/ first_select_pdf_file("missing.pdf")
    \/ \E e \in Extractors : ExExists(e)
    \/ \E e \in Extractors : ExPost(e)

SpecFailure == Init /\ [][NextFailure]_vars

\* ================================================================ claims
\* An extraction whose method has returned.
Returned_(e) == ex_pc[e] \in {"post", "done"}

\* The pages of the document an extraction opened, as (number, text) pairs in
\* page order.
PagesOf(e) == [k \in 1..Len(reader[e].texts) |-> <<k, reader[e].texts[k]>>]

\* C1: a successful extract returns at most N entries, page k in place k
\* (strictly ascending page numbers, no duplicate) with that page's text,
\* whatever the order in which the page tasks completed; and at every moment
\* of the collection a filled slot k holds page k.
C1_ExtractOrdered ==
    \A e \in Extractors :
      /\ \A k \in 1..Len(extracted_content[e]) :
           extracted_content[e][k] # None =>
             extracted_content[e][k] = <<k, reader[e].texts[k]>>
      /\ (Returned_(e) /\ ~IsErrorContent(ex_result[e])) =>
           /\ Len(ex_result[e]) <= Len(reader[e].texts)
           /\ \A k \in 1..Len(ex_result[e]) : ex_result[e][k] = PagesOf(e)[k]
           /\ \A j, k \in 1..Len(ex_result[e]) :
                j < k => ex_result[e][j][1] < ex_result[e][k][1]

\* C1 witness: three pages whose tasks completed in descending order, returned
\* in ascending order.
C1_Witness ==
    \E e \in Extractors :
      /\ Returned_(e)
      /\ completed[e] = <<2, 1, 0>>
      /\ Len(ex_result[e]) = 3
      /\ ex_result[e] = PagesOf(e)

\* The callback of an extraction has run on the main thread.
Updated(e) ==
    /\ ex_pc[e] = "done"
    /\ \A k \in 1..Len(tk_queue) :
         ~(tk_queue[k].kind = "post_extraction" /\ tk_queue[k].by = e)

\* C2: when the task of any page throws, extract returns exactly one entry,
\* the error, and no page; a result never mixes pages with an error entry; and
\* _post_extraction_update then keeps no page and leaves start disabled.
C2_AllOrNothing ==
    \A e \in Extractors :
      /\ (Returned_(e) /\ reader[e].fails # {}) =>
           /\ Len(ex_result[e]) = 1
           /\ IsErrorContent(ex_result[e])
      /\ Returned_(e) =>
           ((\E k \in 1..Len(ex_result[e]) : ex_result[e][k][1] = 0)
              => Len(ex_result[e]) = 1)
      /\ (Updated(e) /\ reader[e].fails # {} /\ n_selects = 1) =>
           /\ current_content = <<>>
           /\ ~start_button
           /\ status_bar = "extraction_failed"

\* C2 witness: a three-page document of which the last task to complete
\* failed, the two pages extracted before it dropped.
C2_Witness ==
    \E e \in Extractors :
      /\ Updated(e)
      /\ Len(reader[e].texts) = 3
      /\ Cardinality(reader[e].fails) = 1
      /\ completed[e][3] \in reader[e].fails
      /\ Len(NotNone(extracted_content[e])) = 2
      /\ ex_result[e] = ErrorResult("PageError")
      /\ current_content = <<>>

\* A step posts a callback of one of `kinds` for thread t to the main loop.
Posts(t, kinds) ==
    /\ Len(tk_queue') > Len(tk_queue)
    /\ \E k \in (Len(tk_queue) + 1)..Len(tk_queue') :
         tk_queue'[k].kind \in kinds /\ tk_queue'[k].by = t

\* C3: single-flight narration: at no moment are two utterances handed to the
\* engine and unfinished, under every interleaving of start, pause/resume and
\* stop with the narration loops.
C3_SingleFlight == Len(eng_queue) <= 1

\* C4: once a narration loop has left through its stop_flag break, no
\* page-changed (update_display) and no word-boundary (_highlight_word) event
\* of that loop's session is sent to the display any more.
C4_NoEventAfterStopObserved ==
    [][\A t \in Threads : broke[t] => ~Posts(t, {"display", "hl"})]_vars

\* A blank page: its text is empty or holds whitespace only.
IsBlank(text) == \A k \in 1..Len(text) : text[k] = " "

\* The page numbers of the pages of a page list that are not blank, in order.
RECURSIVE NonBlankNums(_)
NonBlankNums(content) ==
    IF content = <<>> THEN <<>>
    ELSE IF IsBlank(Head(content)[2]) THEN NonBlankNums(Tail(content))
    ELSE <<Head(content)[1]>> \o NonBlankNums(Tail(content))

\* A narration loop that is over its for loop without a stop_flag break.
Exhausted(t) == pc[t] \in {"finish", "done"} /\ ~broke[t]

\* C5: a loop that ends without having been stopped has passed every
\* non-blank page to say(), in ascending page order, whether or not pause and
\* resume were issued on the way: pause skips no page.
C5_PauseSkipsNoPage ==
    \A t \in Threads : Exhausted(t) => spoken[t] = NonBlankNums(my_content[t])

\* C5 witness: a session of three non-blank pages, never stopped, whose last
\* command was a resume, is inside say() for page 3: the pause was issued
\* during an earlier page (pause_resume_reading needs the lock say() holds)
\* and page 3 is narrated all the same.
C5_Witness ==
    /\ pc[1] = "say_exit" /\ idx[1] = 3
    /\ ~stop_flag /\ ~is_paused /\ status_bar = "resumed"
    /\ spoken[1] = <<1, 2, 3>>

\* C6: while the session is Paused no word-boundary event is forwarded to the
\* display.
C6_NoWordWhilePaused ==
    [][(is_reading /\ is_paused) => \A t \in Threads : ~Posts(t, {"hl"})]_vars

\* The session state stop_reading leaves: Idle, with the stop flag set.
AfterStop ==
    /\ ~is_reading /\ stop_flag
    /\ start_button = (pdf_file_path # "")
    /\ ~pause_button /\ ~stop_button
    /\ status_bar = "stopped"

\* stop_reading returns in this step.
StopReturns == gui_pc = "stop_243" /\ gui_pc' = "idle"

\* C7: every return of stop_reading leaves the session Idle (not reading,
\* pause and stop disabled) with the engine flushed; called when the session
\* is already in the state a stop leaves, it changes nothing.
C7_StopIdempotent ==
    [][StopReturns =>
         /\ AfterStop' /\ eng_queue' = <<>> /\ is_paused' = is_paused
         /\ AfterStop =>
              <<is_reading, is_paused, stop_flag, start_button, pause_button,
                stop_button, status_bar>>' =
              <<is_reading, is_paused, stop_flag, start_button, pause_button,
                stop_button, status_bar>>]_vars

\* C7 witness: stop_reading is about to return for the second time in a row
\* (the Stop button, then the stop_reading a crashed loop had posted), the
\* session already Idle as the first stop left it.
C7_Witness ==
    /\ gui_pc = "stop_243"
    /\ AfterStop
    /\ pc[1] = "crashed"
    /\ tk_queue = <<>>

\* C8: a start that follows the end of a session puts the session in Reading,
\* not Paused.
C8_StartIsReading ==
    [][(~is_reading /\ is_reading') => ~is_paused']_vars

\* C9: whoever is inside an engine command (say, stop, setProperty) holds
\* tts_engine_lock, so no two engine commands overlap.
C9_EngineUnderLock ==
    /\ \A t \in Threads : pc[t] = "say_exit" => tts_engine_lock = Reader(t)
    /\ gui_pc \in {"stop_243", "close_243", "close_65", "speed_174"}
         => tts_engine_lock = MainThread

\* The text of page number n of a page list.
TextOf(content, n) == content[n][2]

\* C10: a loop posts page-changed and calls say() only for pages that are not
\* blank, in ascending page order; a loop that ends unstopped has done so for
\* exactly the non-blank pages.
C10_BlankPagesSkipped ==
    \A t \in Threads :
      /\ \A k \in 1..Len(announced[t]) : ~IsBlank(TextOf(my_content[t], announced[t][k]))
      /\ \A k \in 1..Len(spoken[t]) : ~IsBlank(TextOf(my_content[t], spoken[t][k]))
      /\ \A j, k \in 1..Len(announced[t]) : j < k => announced[t][j] < announced[t][k]
      /\ Exhausted(t) => announced[t] = NonBlankNums(my_content[t])
      /\ \A k \in 1..Len(tk_queue) :
           (tk_queue[k].kind \in {"display", "hl"} /\ tk_queue[k].by = t)
             => ~IsBlank(TextOf(my_content[t], tk_queue[k].page))

\* C10 witness: three pages, page 2 blank: page-changed posted and say()
\* called for pages 1 and 3 only.
C10_Witness ==
    /\ pc[1] = "done"
    /\ Len(my_content[1]) = 3
    /\ IsBlank(my_content[1][2][2])
    /\ announced[1] = <<1, 3>>
    /\ spoken[1] = <<1, 3>>

\* The extraction e was asked for a path that names no file.
NoSuchFile(e) == ex_pc[e] \notin {"unborn", "exists"} /\ pdf_file_path = "missing.pdf"

\* C11: the extraction of a path that names no existing file returns the one
\* entry EXTRACTION_ERROR FileNotFoundError without having opened a reader
\* (no parsing attempted); from then on no page is loaded and no step posts a
\* page-changed (update_display) or word event or calls say(), start_reading
\* called or not.
C11_NotFoundNoPage ==
    [][\A e \in Extractors :
         NoSuchFile(e) =>
           /\ ex_result[e] = ErrorResult("FileNotFoundError")
           /\ reader[e] = NoReader /\ completed[e] = <<>>
           /\ current_content = <<>>
           /\ \A t \in Threads : ~Posts(t, {"display", "hl"}) /\ spoken'[t] = <<>>]_vars

\* C11 witness: the failure of the missing path has been shown, start_reading
\* was called after it (the status bar still says so) and its loop is over,
\* the display untouched.
C11_Witness ==
    /\ NoSuchFile(1) /\ Updated(1)
    /\ ex_result[1] = ErrorResult("FileNotFoundError")
    /\ status_bar = "started"
    /\ pc[1] = "done" /\ announced[1] = <<>>
    /\ display_text.page = 0

\* C12: whatever values the rate was set with, the rate the engine was given
\* lies in the slider's range [100, 300].
C12_RateSaturates == rate \in SLIDER_FROM..SLIDER_TO

\* The main loop has nothing left to run.
Quiescent == gui_pc = "idle" /\ tk_queue = <<>>

\* The main loop runs a callback of this kind in this step.
Runs(kind) ==
    /\ gui_pc = "idle" /\ tk_queue # <<>>
    /\ Head(tk_queue).kind = kind
    /\ tk_queue' = Tail(tk_queue)

\* After the crash of a narration loop, once its callbacks have run, the
\* session is not reading and pause and stop are disabled.
CrashEndsIdle ==
    \A t \in Threads :
      (pc[t] = "crashed" /\ Quiescent) => (~is_reading /\ ~pause_button /\ ~stop_button)

\* C13: a crash of the narration loop is reported (the callback posted at
\* line 336 puts the crash status in the status bar) and forces the transition
\* of a stop: once the callbacks of the crash have run the session is Idle.
C13_CrashReportedAndStopped ==
    [][/\ Runs("crash_status") => status_bar' = "crash"
       /\ CrashEndsIdle']_vars

\* A failure has happened and everything it set off is over: a narration loop
\* crashed or an extraction returned an error, no loop and no extraction is
\* running and the main loop has nothing left to run.
FailureEnded ==
    /\ Quiescent
    /\ \A t \in Threads : ~Live(t)
    /\ \A e \in Extractors : ex_pc[e] \in {"unborn", "done"}
    /\ \/ \E t \in Threads : pc[t] = "crashed"
       \/ \E e \in Extractors : ex_pc[e] = "done" /\ IsErrorContent(ex_result[e])

\* C14: every failure path ends with one final status message in the status
\* bar and the controls of Idle: start enabled exactly when a document is
\* loaded, pause and stop disabled.
C14_FailureEndsIdle ==
    FailureEnded =>
      /\ ~is_reading
      /\ start_button = (current_content # <<>>)
      /\ ~pause_button /\ ~stop_button
      /\ status_bar \in {"stopped", "finished", "extraction_failed", "crash"}

\* The pages thread t has posted update_display for.
Announced(t) == {announced[t][k] : k \in 1..Len(announced[t])}

\* C15: the page-changed event of a page is posted before say() is called for
\* it and before any word event of it, and when the main loop runs the event
\* the text it puts in the display is the text of the page it was posted for.
C15_PageShownIsPageRead ==
    [][/\ \A t \in Threads :
            /\ spoken'[t] # spoken[t] =>
                  spoken'[t][Len(spoken'[t])] = announced[t][Len(announced[t])]
            /\ \A k \in (Len(tk_queue) + 1)..Len(tk_queue') :
                  (tk_queue'[k].kind = "hl" /\ tk_queue'[k].by = t)
                    => tk_queue'[k].page \in Announced(t)
       /\ Runs("display") => display_text'.page = Head(tk_queue).page]_vars

\* C16: while the session is Paused the narration loop does not advance: a
\* loop that has announced a page posts no page-changed event for a next page
\* (and so calls say() for none) as long as is_paused stays set.
C16_NoAdvanceWhilePaused ==
    [][(is_reading /\ is_paused /\ is_paused' /\ ~stop_flag) =>
         \A t \in Threads :
           announced[t] # <<>> => announced'[t] = announced[t]]_vars

\* The session of loop t was ended by stop_reading: a later loop exists (so
\* is_reading was reset during the session of t) and t is neither over nor
\* crashed (so it was not t that reset it).
StoppedLoop(t) == t < n_threads /\ Live(t)

\* C17: after stop_reading the narration loop of the stopped session goes to
\* no further page (it posts no page-changed event, and so calls say() for no
\* page it had not reached), whatever follows the stop, a new start included.
C17_StoppedLoopAdvancesNoMore ==
    [][\A t \in Threads : StoppedLoop(t) => announced'[t] = announced[t]]_vars

\* C18: while a session is reading (paused or not) no step has an effect of
\* start_reading: no narration loop is created, the stop flag is not cleared,
\* the paused state, the buttons start_reading sets and its status message
\* are not touched.
C18_StartRejectedWhileReading ==
    [][is_reading =>
         /\ n_threads' = n_threads /\ my_content' = my_content
         /\ stop_flag => stop_flag'
         /\ status_bar' = "started" => status_bar = "started"
         /\ (is_reading' /\ gui_pc' = "idle") =>
               (pause_button' = pause_button /\ stop_button' = stop_button)]_vars

\* C18 witness: start_reading was called during the one session of the run
\* and returned at line 213; the session is still reading, paused, its loop
\* the only one.
C18_Witness ==
    /\ start_rejected
    /\ is_reading /\ is_paused
    /\ n_threads = 1 /\ Live(1)

\* C19: while the loop of the newest session is running and no stop has been
\* requested since its start, is_reading is set and, once the pending
\* callbacks have run, the stop and pause controls are enabled and start is
\* disabled: the cleanup of an earlier session does not reach this one.
C19_FlagAgreesWithLoop ==
    (n_threads > 0 /\ Live(n_threads) /\ ~stop_flag) =>
      /\ is_reading
      /\ Quiescent => (stop_button /\ pause_button /\ ~start_button)

\* The page list of the file at a path: its pages in order, or none when the
\* path names no file.
PageListAt(path) ==
    IF path = "missing.pdf" THEN <<>>
    ELSE [k \in 1..Len(DocAt(path).texts) |-> <<k, DocAt(path).texts[k]>>]

\* Every extraction started has returned and its callback has run.
AllUpdated == n_selects > 0 /\ \A e \in 1..n_selects : Updated(e)

\* C20: once the extractions of all the documents selected are over, the page
\* list loaded for reading is that of the document selected last.
C20_LastSelectionLoaded == AllUpdated => current_content = PageListAt(pdf_file_path)

====
